---- MODULE Spec2Model ----
(***************************************************************************)
(* Model of the mind-map generator's App component (App.jsx): the view     *)
(* state (tema, nodes, edges, resumo, telaAtual, isLocked), the handlers   *)
(* handleGerarMapa, handleVoltar and handleExportPDF, and the response     *)
(* normalizer (cleanJsonString, JSON.parse, processedNodes/processedEdges).*)
(*                                                                         *)
(* Strings the code inspects character by character (the model's reply)    *)
(* are sequences of characters.  A serialized JSON document is             *)
(* one token of such a sequence (a key of Docs); JSON.parse maps the token *)
(* to the value it denotes and rejects every other text.  JavaScript       *)
(* objects are functions from key names to values, an absent key is a key  *)
(* outside the DOMAIN, and null is the value Null.                         *)
(***************************************************************************)
EXTENDS Integers, Sequences, FiniteSets, TLC

(***************************************************************************)
(* Bounds of the model.                                                    *)
(***************************************************************************)
MaxExports == 2

(***************************************************************************)
(* JavaScript values.                                                      *)
(***************************************************************************)
Undefined == "<undefined>"
Null == [isNull |-> TRUE]

Has(obj, k) == k \in DOMAIN obj
Get(obj, k) == IF k \in DOMAIN obj THEN obj[k] ELSE Undefined

\* { ...a, ...b }: the keys of both, b's value where both have the key
Spread(a, b) ==
    [k \in (DOMAIN a) \cup (DOMAIN b) |-> IF k \in DOMAIN b THEN b[k] ELSE a[k]]

EmptyObj == [k \in {} |-> Undefined]

(***************************************************************************)
(* Texts: sequences of characters.                                         *)
(***************************************************************************)
\* the backtick character (written by name: the character itself cannot be
\* written in a string here)
BT == "BACKTICK"
NL == "\n"
SP == " "
Whitespace == {NL, SP}

OpenFence == <<BT, BT, BT, "j", "s", "o", "n">>
CloseFence == <<BT, BT, BT>>

StartsWith(text, p) ==
    /\ Len(text) >= Len(p)
    /\ SubSeq(text, 1, Len(p)) = p

EndsWith(text, p) ==
    /\ Len(text) >= Len(p)
    /\ SubSeq(text, Len(text) - Len(p) + 1, Len(text)) = p

RECURSIVE DropLeadingWs(_)
DropLeadingWs(text) ==
    IF text # <<>> /\ Head(text) \in Whitespace
    THEN DropLeadingWs(Tail(text))
    ELSE text

RECURSIVE DropTrailingWs(_)
DropTrailingWs(text) ==
    IF text # <<>> /\ text[Len(text)] \in Whitespace
    THEN DropTrailingWs(SubSeq(text, 1, Len(text) - 1))
    ELSE text

\* the opening fence without \s*: the whitespace after it is kept
StripOpenFence_NoWs(text) ==
    IF StartsWith(text, OpenFence)
    THEN SubSeq(text, Len(OpenFence) + 1, Len(text))
    ELSE text

\* the opening fence made optional, /^(BT BT BT json)?\s*/: leading
\* whitespace is dropped from every text
StripOpenFence_OptionalFence(text) ==
    IF StartsWith(text, OpenFence)
    THEN DropLeadingWs(SubSeq(text, Len(OpenFence) + 1, Len(text)))
    ELSE DropLeadingWs(text)

\* text.replace(/^BT BT BT json\s*/, ''): an opening fence at the start of the
\* text and all the whitespace after it
StripOpenFence(text) ==
    IF StartsWith(text, OpenFence)
    THEN DropLeadingWs(SubSeq(text, Len(OpenFence) + 1, Len(text)))
    ELSE text

\* text.replace(/BT BT BT$/, ''): a closing fence at the very end of the text
StripCloseFence(text) ==
    IF EndsWith(text, CloseFence)
    THEN SubSeq(text, 1, Len(text) - Len(CloseFence))
    ELSE text

cleanJsonString(text) == StripCloseFence(StripOpenFence(text))

(***************************************************************************)
(* The JSON documents a reply may carry, as the values JSON.parse yields.  *)
(***************************************************************************)
NodeRoot ==
    [id |-> "1", position |-> [x |-> 0, y |-> 0],
     data |-> [label |-> "Root", descricao |-> "d"]]
NodeChild ==
    [id |-> "2", position |-> [x |-> 1, y |-> 2],
     data |-> [label |-> "A", descricao |-> ""]]
\* a node for which the model supplied its own type and data.id
NodeTyped ==
    [id |-> "3", position |-> [x |-> 2, y |-> 2], type |-> "input",
     data |-> [label |-> "B", descricao |-> "e", id |-> "9"]]
\* a node without data
NodeBare == [id |-> "4", position |-> [x |-> 3, y |-> 0]]
\* a node without id
NodeNoId ==
    [position |-> [x |-> 4, y |-> 0],
     data |-> [label |-> "C", descricao |-> "f"]]

EdgeOk == [id |-> "e1", source |-> "1", target |-> "2"]
\* an edge whose target is no node's id
EdgeDangling == [id |-> "e2", source |-> "1", target |-> "7"]
\* an edge whose source is no node's id
EdgeNoSource == [id |-> "e4", source |-> "9", target |-> "1"]
\* an edge for which the model supplied its own animated and style
EdgeStyled ==
    [id |-> "e3", source |-> "1", target |-> "3", animated |-> FALSE,
     style |-> [stroke |-> "red", strokeWidth |-> 9]]

Doc(ns, es, r) == [mapa |-> [nodes |-> ns, edges |-> es], resumo |-> r]

Docs ==
    [Jspec      |-> Doc(<<NodeRoot>>, <<>>, "s"),
     Jfull      |-> Doc(<<NodeRoot, NodeChild>>, <<EdgeOk>>, "s"),
     Jtyped     |-> Doc(<<NodeRoot, NodeTyped, NodeBare>>, <<EdgeStyled>>, "t"),
     Jdangling  |-> Doc(<<NodeRoot>>, <<EdgeDangling, EdgeNoSource>>, "s"),
     JnoId      |-> Doc(<<NodeNoId>>, <<>>, "s"),
     Jempty     |-> Doc(<<>>, <<>>, "s"),
     JresumoE   |-> Doc(<<NodeRoot>>, <<>>, ""),
     JnoResumo  |-> [mapa |-> [nodes |-> <<NodeRoot>>, edges |-> <<>>]],
     JnoMapa    |-> [resumo |-> "s"],
     JnoNodes   |-> [mapa |-> [edges |-> <<EdgeOk>>], resumo |-> "s"],
     JnoEdges   |-> [mapa |-> [nodes |-> <<NodeRoot>>], resumo |-> "s"],
     JnullNode  |-> Doc(<<NodeRoot, Null>>, <<>>, "s"),
     JnullEdges |-> Doc(<<NodeRoot>>, <<EdgeOk, Null>>, "s"),
     Jnull      |-> Null,
     Ja1        |-> [a |-> 1]]

\* a truncated object: a token that denotes no JSON value
Jtrunc == "Jtrunc"

\* JSON.parse: JSON whitespace around the one document is skipped, any
\* other text is a SyntaxError
JSONparse(text) ==
    LET body == DropTrailingWs(DropLeadingWs(text))
    IN  IF Len(body) = 1 /\ body[1] \in DOMAIN Docs
        THEN [ok |-> TRUE, value |-> Docs[body[1]]]
        ELSE [ok |-> FALSE, value |-> Null]

(***************************************************************************)
(* The replies of the generation call: a document bare, fenced, half       *)
(* fenced, fenced twice, padded with whitespace, fenced without the json   *)
(* tag, or after prose; and the empty text.                                *)
(***************************************************************************)
Tokens == (DOMAIN Docs) \cup {Jtrunc}

Wrap(kind, tok) ==
    CASE kind = "bare"      -> <<tok>>
      [] kind = "fenced"    -> OpenFence \o <<NL, tok, NL>> \o CloseFence
      [] kind = "tight"     -> OpenFence \o <<tok>> \o CloseFence
      [] kind = "openOnly"  -> OpenFence \o <<NL, tok>>
      [] kind = "closeOnly" -> <<tok>> \o CloseFence
      [] kind = "padded"    -> <<SP, tok, NL>>
      [] kind = "untagged"  -> CloseFence \o <<NL, tok, NL>> \o CloseFence
      [] kind = "prose"     -> <<"x", SP, tok>>
      [] kind = "twice"     -> OpenFence \o <<NL>> \o OpenFence \o <<NL, tok, NL>>
                               \o CloseFence \o CloseFence

WrapKinds ==
    {"bare", "fenced", "tight", "openOnly", "closeOnly", "padded", "untagged",
     "prose", "twice"}

\* the documents that are tried under every wrapping
WrappedTokens == {"Jspec", "Ja1", Jtrunc}

Replies ==
    {Wrap("bare", tok) : tok \in Tokens}
        \cup {Wrap(k, tok) : k \in WrapKinds, tok \in WrappedTokens}
        \cup {<<>>}

\* how the awaited generation call settles: rejected (or response.text()
\* throws), or resolved with a reply text
Outcomes ==
    {[ok |-> FALSE, text |-> <<>>]} \cup {[ok |-> TRUE, text |-> r] : r \in Replies}

(***************************************************************************)
(* The reshaping of a parsed reply.                                        *)
(***************************************************************************)
\* the own properties a spread copies: none for null
ObjOf(v) == IF v = Null THEN EmptyObj ELSE v

\* the spread of n comes last: n's own type and data replace the computed
ProcessNode_SpreadLast(n) ==
    Spread([type |-> "mindmap",
            data |-> Spread(IF Has(n, "data") THEN ObjOf(n.data) ELSE EmptyObj,
                            [id |-> Get(n, "id")])],
           ObjOf(n))

\* n => ({ ...n, type: 'mindmap', data: { ...n.data, id: n.id } })
ProcessNode(n) ==
    Spread(ObjOf(n),
           [type |-> "mindmap",
            data |-> Spread(IF Has(n, "data") THEN ObjOf(n.data) ELSE EmptyObj,
                            [id |-> Get(n, "id")])])

FixedStyle == [stroke |-> "#6b7280", strokeWidth |-> 2]

\* the spread of e comes last: e's own animated and style replace the fixed
ProcessEdge_SpreadLast(e) ==
    Spread([animated |-> TRUE, style |-> FixedStyle], ObjOf(e))

\* e => ({ ...e, animated: true, style: { stroke: '#6b7280', strokeWidth: 2 } })
ProcessEdge(e) == Spread(ObjOf(e), [animated |-> TRUE, style |-> FixedStyle])

\* dadosCompletos.mapa.nodes.map(...) throws a TypeError: dadosCompletos is
\* null, mapa or nodes is missing, or an entry is null (n.data of null)
NodesThrow(d) ==
    \/ d = Null
    \/ ~Has(d, "mapa")
    \/ ~Has(d.mapa, "nodes")
    \/ \E i \in 1..Len(d.mapa.nodes) : d.mapa.nodes[i] = Null

\* the edges are validated against the nodes: an edge whose source or target
\* is no node's id throws as well
EdgesThrow_Validated(d) ==
    \/ ~Has(d.mapa, "edges")
    \/ \E i \in 1..Len(d.mapa.edges) :
         \E k \in {"source", "target"} :
            \A j \in 1..Len(d.mapa.nodes) :
               Get(ObjOf(d.mapa.edges[i]), k) # Get(ObjOf(d.mapa.nodes[j]), "id")

\* dadosCompletos.mapa.edges.map(...) throws a TypeError: edges is missing
\* (a null entry does not throw: the spread of null copies nothing)
EdgesThrow(d) == ~Has(d.mapa, "edges")

\* Array.prototype.map: one output entry per input entry, in order
processedNodes(d) ==
    [i \in 1..Len(d.mapa.nodes) |-> ProcessNode(d.mapa.nodes[i])]
processedEdges(d) ==
    [i \in 1..Len(d.mapa.edges) |-> ProcessEdge(d.mapa.edges[i])]

ResumoFallback == "Nao foi possivel gerar um resumo."

\* dadosCompletos.resumo ?? fallback: the empty string is kept
ResumoOf_EmptyKept(d) ==
    IF Has(d, "resumo") THEN d.resumo ELSE ResumoFallback

\* dadosCompletos.resumo || fallback
ResumoOf(d) ==
    IF Has(d, "resumo") /\ d.resumo # "" THEN d.resumo ELSE ResumoFallback

(***************************************************************************)
(* The alerts.                                                             *)
(***************************************************************************)
AlertTema == "Por favor, digite um tema."
AlertChave == "Chave de API do Gemini nao encontrada!"
AlertErro == "Desculpe, ocorreu um erro ao gerar o mapa."
AlertPDF == "Desculpe, ocorreu um erro ao exportar o PDF."

(***************************************************************************)
(* The state.                                                              *)
(***************************************************************************)
VARIABLES
    tema,       \* useState(''): the topic
    resumo,     \* useState(''): the summary
    telaAtual,  \* useState('HOME'): the screen
    nodes,      \* useNodesState([])
    edges,      \* useEdgesState([])
    isLocked,   \* useState(false)
    apiKey,     \* import.meta.env.VITE_GEMINI_API_KEY ("" when absent)
    inflight,   \* the generation calls awaiting their result, oldest first,
                \* each with the topic and the prompt it was issued with
    exports,    \* the handleExportPDF calls that have not returned
    cursor,     \* document.body.style.cursor
    out         \* what the last step did: alerts, network calls, saved files

vars ==
    <<tema, resumo, telaAtual, nodes, edges, isLocked, apiKey, inflight,
      exports, cursor, out>>

store == <<tema, resumo, telaAtual, nodes, edges>>

Temas == {"", "a", "b"}
ApiKeys == {"", "key"}

\* the effects of a step: the handler or continuation that ran, the alerts
\* it showed, the network calls it issued, the files it saved, and what it
\* was given (the outcome of the generation call, the step of the export
\* that throws)
Effects(op, alerts, calls, saved, outcome, failAt) ==
    [op |-> op, alerts |-> alerts, calls |-> calls, saved |-> saved,
     outcome |-> outcome, failAt |-> failAt]

NoOutcome == [ok |-> FALSE, text |-> <<>>]

Init ==
    /\ tema = ""
    /\ resumo = ""
    /\ telaAtual = "HOME"
    /\ nodes = <<>>
    /\ edges = <<>>
    /\ isLocked = FALSE
    /\ apiKey \in ApiKeys
    /\ inflight = <<>>
    /\ exports = <<>>
    /\ cursor = "default"
    /\ out = Effects("init", <<>>, 0, <<>>, NoOutcome, 0)

\* the sequence s without its i-th element
RemoveAt(s, i) == SubSeq(s, 1, i - 1) \o SubSeq(s, i + 1, Len(s))

(***************************************************************************)
(* getPrompt: the template, as the sequence of its pieces.  The topic and  *)
(* each quoted key name are pieces of their own; the accented letters of   *)
(* the template are written without their accents.                         *)
(***************************************************************************)
Q == "\""

\* the first line of the template, with the topic
PromptHead(t) == <<"Gere um mapa mental sobre o tema ", Q, t, Q, ".", NL>>

\* the lines between the two places of the topic
PromptShape ==
    <<"Sua resposta deve ser **exclusivamente** um objeto JSON valido, ",
      "sem nenhum texto antes ou depois.", NL,
      "O JSON deve ter duas chaves principais: ", Q, "mapa", Q, " e ",
      Q, "resumo", Q, ".", NL, NL,
      "1.  A chave ", Q, "mapa", Q, " deve conter um objeto JSON com ",
      Q, "nodes", Q, " e ", Q, "edges", Q, ":", NL,
      "    - ", Q, "nodes", Q, ": Um array de objetos. Cada objeto DEVE ter:",
      NL,
      "      - ", Q, "id", Q, ": (string)", NL,
      "      - ", Q, "position", Q, ": { ", Q, "x", Q, ": (number), ",
      Q, "y", Q, ": (number) } (distribua os nos de forma logica)", NL,
      "      - ", Q, "data", Q, ": {", NL,
      "          ", Q, "label", Q, ": (string, o titulo do topico),", NL,
      "          ", Q, "descricao", Q,
      ": (string, uma breve explicacao de 1-2 frases sobre o topico/label)",
      NL,
      "        }", NL,
      "    - ", Q, "edges", Q, ": (array de objetos com id, source, target)",
      NL, NL>>

\* the last line of the template, with the topic again
PromptTail(t) ==
    <<"2.  A chave ", Q, "resumo", Q,
      " deve ser uma string contendo um resumo conciso e geral sobre o tema ",
      Q, t, Q, " (maximo 3-4 frases).", NL>>

\* the last line names no topic
getPrompt_TopicOnce(t) ==
    PromptHead(t) \o PromptShape
        \o <<"2.  A chave ", Q, "resumo", Q,
             " deve ser uma string contendo um resumo conciso e geral.", NL>>

getPrompt(t) == PromptHead(t) \o PromptShape \o PromptTail(t)

(***************************************************************************)
(* handleGerarMapa, up to its await.  The state updates of one synchronous *)
(* run of a handler are committed together, so the run is one step.        *)
(***************************************************************************)
\* the guard of the empty topic alerts but does not return
GerarMapaStart_NoReturn(t, key) ==
    IF key = ""
    THEN [cleared |-> TRUE, tela |-> "HOME",
          alerts |-> (IF t = "" THEN <<AlertTema>> ELSE <<>>) \o <<AlertChave>>,
          call |-> FALSE]
    ELSE [cleared |-> TRUE, tela |-> "LOADING",
          alerts |-> IF t = "" THEN <<AlertTema>> ELSE <<>>, call |-> TRUE]

\* the guard of the empty topic returns without an alert
GerarMapaStart_NoAlert(t, key) ==
    IF t = ""
    THEN [cleared |-> FALSE, tela |-> "HOME", alerts |-> <<>>, call |-> FALSE]
    ELSE IF key = ""
    THEN [cleared |-> TRUE, tela |-> "HOME", alerts |-> <<AlertChave>>,
          call |-> FALSE]
    ELSE [cleared |-> TRUE, tela |-> "LOADING", alerts |-> <<>>,
          call |-> TRUE]

\* the credential is checked in the catch block only: the call is issued
\* without it
GerarMapaStart_NoKeyCheck(t, key) ==
    IF t = ""
    THEN [cleared |-> FALSE, tela |-> "HOME", alerts |-> <<AlertTema>>,
          call |-> FALSE]
    ELSE [cleared |-> TRUE, tela |-> "LOADING", alerts |-> <<>>,
          call |-> TRUE]

\* what the synchronous part does for topic t and credential key:
\* cleared: nodes, edges and resumo were set to empty; tela: the screen it
\* leaves; alerts: the alerts it shows; call: it issues the network call
GerarMapaStart(t, key) ==
    IF t = ""
    THEN [cleared |-> FALSE, tela |-> "HOME", alerts |-> <<AlertTema>>,
          call |-> FALSE]
    ELSE IF key = ""
    THEN [cleared |-> TRUE, tela |-> "HOME", alerts |-> <<AlertChave>>,
          call |-> FALSE]
    ELSE [cleared |-> TRUE, tela |-> "LOADING", alerts |-> <<>>,
          call |-> TRUE]

\* the topic input and the button rendered on every screen
handleGerarMapa_AnyScreen ==
    /\ LET r == GerarMapaStart(tema, apiKey)
       IN  /\ telaAtual' = r.tela
           /\ nodes' = IF r.cleared THEN <<>> ELSE nodes
           /\ edges' = IF r.cleared THEN <<>> ELSE edges
           /\ resumo' = IF r.cleared THEN "" ELSE resumo
           /\ inflight' = IF r.call
                          THEN Append(inflight, [tema |-> tema,
                                                 prompt |-> getPrompt(tema)])
                          ELSE inflight
           /\ out' = Effects("handleGerarMapa", r.alerts,
                             IF r.call THEN 1 ELSE 0, <<>>, NoOutcome, 0)
    /\ UNCHANGED <<tema, isLocked, apiKey, exports, cursor>>

\* the button and the Enter key of the topic input, both rendered on HOME
handleGerarMapa ==
    /\ telaAtual = "HOME"
    /\ LET r == GerarMapaStart(tema, apiKey)
       IN  /\ telaAtual' = r.tela
           /\ nodes' = IF r.cleared THEN <<>> ELSE nodes
           /\ edges' = IF r.cleared THEN <<>> ELSE edges
           /\ resumo' = IF r.cleared THEN "" ELSE resumo
           /\ inflight' = IF r.call
                          THEN Append(inflight, [tema |-> tema,
                                                 prompt |-> getPrompt(tema)])
                          ELSE inflight
           /\ out' = Effects("handleGerarMapa", r.alerts,
                             IF r.call THEN 1 ELSE 0, <<>>, NoOutcome, 0)
    /\ UNCHANGED <<tema, isLocked, apiKey, exports, cursor>>

(***************************************************************************)
(* handleGerarMapa, from its await to its end: the try block after the     *)
(* call settled, and the catch block.                                      *)
(***************************************************************************)
\* the catch block alerts but leaves the screen
GerarMapaCatch_NoHome(s) ==
    [nodes |-> s.nodes, edges |-> s.edges, resumo |-> s.resumo,
     telaAtual |-> "LOADING", alerts |-> <<AlertErro>>]

\* catch (error): the alert and the return to HOME; s is the state the
\* try block left
GerarMapaCatch(s) ==
    [nodes |-> s.nodes, edges |-> s.edges, resumo |-> s.resumo,
     telaAtual |-> "HOME", alerts |-> <<AlertErro>>]

\* setNodes is called as soon as the nodes are reshaped, before the edges
GerarMapaTry_NodesFirst(s, o) ==
    IF ~o.ok
    THEN GerarMapaCatch(s)
    ELSE LET parsed == JSONparse(cleanJsonString(o.text))
             d == parsed.value
         IN  IF ~parsed.ok THEN GerarMapaCatch(s)
             ELSE IF NodesThrow(d) THEN GerarMapaCatch(s)
             ELSE IF EdgesThrow(d)
             THEN GerarMapaCatch([s EXCEPT !.nodes = processedNodes(d)])
             ELSE [nodes |-> processedNodes(d), edges |-> processedEdges(d),
                   resumo |-> ResumoOf(d), telaAtual |-> "RESULT",
                   alerts |-> <<>>]

\* setEdges is not called
GerarMapaTry_NoSetEdges(s, o) ==
    IF ~o.ok
    THEN GerarMapaCatch(s)
    ELSE LET parsed == JSONparse(cleanJsonString(o.text))
             d == parsed.value
         IN  IF ~parsed.ok THEN GerarMapaCatch(s)
             ELSE IF NodesThrow(d) THEN GerarMapaCatch(s)
             ELSE IF EdgesThrow(d) THEN GerarMapaCatch(s)
             ELSE [nodes |-> processedNodes(d), edges |-> s.edges,
                   resumo |-> ResumoOf(d), telaAtual |-> "RESULT",
                   alerts |-> <<>>]

\* (dadosCompletos.mapa.edges || []).map(...): missing edges are no edges
GerarMapaTry_OptionalEdges(s, o) ==
    IF ~o.ok
    THEN GerarMapaCatch(s)
    ELSE LET parsed == JSONparse(cleanJsonString(o.text))
             d == parsed.value
         IN  IF ~parsed.ok THEN GerarMapaCatch(s)
             ELSE IF NodesThrow(d) THEN GerarMapaCatch(s)
             ELSE [nodes |-> processedNodes(d),
                   edges |-> IF EdgesThrow(d) THEN <<>> ELSE processedEdges(d),
                   resumo |-> ResumoOf(d), telaAtual |-> "RESULT",
                   alerts |-> <<>>]

\* JSON.parse before the try block: its SyntaxError is not caught, the
\* handler ends where it is
GerarMapaTry_ParseUncaught(s, o) ==
    IF ~o.ok
    THEN GerarMapaCatch(s)
    ELSE LET parsed == JSONparse(cleanJsonString(o.text))
             d == parsed.value
         IN  IF ~parsed.ok
             THEN [nodes |-> s.nodes, edges |-> s.edges, resumo |-> s.resumo,
                   telaAtual |-> "LOADING", alerts |-> <<>>]
             ELSE IF NodesThrow(d) THEN GerarMapaCatch(s)
             ELSE IF EdgesThrow(d) THEN GerarMapaCatch(s)
             ELSE [nodes |-> processedNodes(d), edges |-> processedEdges(d),
                   resumo |-> ResumoOf(d), telaAtual |-> "RESULT",
                   alerts |-> <<>>]

\* the try block on the call's outcome o, from the state s
GerarMapaTry(s, o) ==
    IF ~o.ok
    THEN GerarMapaCatch(s)
    ELSE LET parsed == JSONparse(cleanJsonString(o.text))
             d == parsed.value
         IN  IF ~parsed.ok THEN GerarMapaCatch(s)
             ELSE IF NodesThrow(d) THEN GerarMapaCatch(s)
             ELSE IF EdgesThrow(d) THEN GerarMapaCatch(s)
             ELSE [nodes |-> processedNodes(d), edges |-> processedEdges(d),
                   resumo |-> ResumoOf(d), telaAtual |-> "RESULT",
                   alerts |-> <<>>]

\* the catch block issues the call again
GerarMapaSettle_Retry(i, o) ==
    /\ i \in 1..Len(inflight)
    /\ LET s == [nodes |-> nodes, edges |-> edges, resumo |-> resumo]
           r == GerarMapaTry(s, o)
       IN  /\ nodes' = r.nodes
           /\ edges' = r.edges
           /\ resumo' = r.resumo
           /\ telaAtual' = IF r.alerts = <<>> THEN r.telaAtual ELSE "LOADING"
           /\ out' = Effects("GerarMapaSettle", r.alerts,
                             IF r.alerts = <<>> THEN 0 ELSE 1, <<>>, o, 0)
           /\ inflight' = IF r.alerts = <<>> THEN RemoveAt(inflight, i)
                          ELSE inflight
    /\ UNCHANGED <<tema, isLocked, apiKey, exports, cursor>>

GerarMapaSettle(i, o) ==
    /\ i \in 1..Len(inflight)
    /\ LET s == [nodes |-> nodes, edges |-> edges, resumo |-> resumo]
           r == GerarMapaTry(s, o)
       IN  /\ nodes' = r.nodes
           /\ edges' = r.edges
           /\ resumo' = r.resumo
           /\ telaAtual' = r.telaAtual
           /\ out' = Effects("GerarMapaSettle", r.alerts, 0, <<>>, o, 0)
    /\ inflight' = RemoveAt(inflight, i)
    /\ UNCHANGED <<tema, isLocked, apiKey, exports, cursor>>

(***************************************************************************)
(* The topic input (HOME), handleVoltar and the lock button (RESULT).      *)
(***************************************************************************)
\* the topic input rendered on every screen
setTema_AnyScreen(t) ==
    /\ tema' = t
    /\ out' = Effects("setTema", <<>>, 0, <<>>, NoOutcome, 0)
    /\ UNCHANGED <<resumo, telaAtual, nodes, edges, isLocked, apiKey,
                   inflight, exports, cursor>>

\* onChange={(e) => setTema(e.target.value)}
setTema(t) ==
    /\ telaAtual = "HOME"
    /\ tema' = t
    /\ out' = Effects("setTema", <<>>, 0, <<>>, NoOutcome, 0)
    /\ UNCHANGED <<resumo, telaAtual, nodes, edges, isLocked, apiKey,
                   inflight, exports, cursor>>

\* handleVoltar without setEdges([])
VoltarState_KeepEdges ==
    [tema |-> "", nodes |-> <<>>, edges |-> edges, resumo |-> "",
     telaAtual |-> "HOME"]

\* the view state handleVoltar leaves
VoltarState ==
    [tema |-> "", nodes |-> <<>>, edges |-> <<>>, resumo |-> "",
     telaAtual |-> "HOME"]

\* a Novo Mapa button on LOADING too: a cancel
handleVoltar_FromLoading ==
    /\ telaAtual \in {"RESULT", "LOADING"}
    /\ tema' = VoltarState.tema
    /\ nodes' = VoltarState.nodes
    /\ edges' = VoltarState.edges
    /\ resumo' = VoltarState.resumo
    /\ telaAtual' = VoltarState.telaAtual
    /\ out' = Effects("handleVoltar", <<>>, 0, <<>>, NoOutcome, 0)
    /\ UNCHANGED <<isLocked, apiKey, inflight, exports, cursor>>

\* the Novo Mapa button, rendered on RESULT
handleVoltar ==
    /\ telaAtual = "RESULT"
    /\ tema' = VoltarState.tema
    /\ nodes' = VoltarState.nodes
    /\ edges' = VoltarState.edges
    /\ resumo' = VoltarState.resumo
    /\ telaAtual' = VoltarState.telaAtual
    /\ out' = Effects("handleVoltar", <<>>, 0, <<>>, NoOutcome, 0)
    /\ UNCHANGED <<isLocked, apiKey, inflight, exports, cursor>>

\* onClick={() => setIsLocked(!isLocked)}
toggleLock ==
    /\ telaAtual = "RESULT"
    /\ isLocked' = ~isLocked
    /\ out' = Effects("toggleLock", <<>>, 0, <<>>, NoOutcome, 0)
    /\ UNCHANGED <<tema, resumo, telaAtual, nodes, edges, apiKey, inflight,
                   exports, cursor>>

\* preventScrolling follows the lock the wrong way round
ReactFlowProps_ScrollInverted ==
    [nodesDraggable |-> ~isLocked, nodesFocusable |-> ~isLocked,
     edgesFocusable |-> ~isLocked, panOnDrag |-> ~isLocked,
     zoomOnScroll |-> ~isLocked, zoomOnPinch |-> ~isLocked,
     zoomOnDoubleClick |-> ~isLocked, preventScrolling |-> isLocked]

\* the interaction props the diagram is rendered with
ReactFlowProps ==
    [nodesDraggable |-> ~isLocked, nodesFocusable |-> ~isLocked,
     edgesFocusable |-> ~isLocked, panOnDrag |-> ~isLocked,
     zoomOnScroll |-> ~isLocked, zoomOnPinch |-> ~isLocked,
     zoomOnDoubleClick |-> ~isLocked, preventScrolling |-> ~isLocked]

\* the page scrolls under the pointer over the diagram when the diagram
\* does not prevent it
PageScrolls == ~ReactFlowProps.preventScrolling

\* where a dragged node is dropped
DragPosition == [x |-> 5, y |-> 5]

\* onNodesChange with a position change: the user drags node i, which the
\* diagram allows while nodesDraggable
onNodesChange(i) ==
    /\ telaAtual = "RESULT"
    /\ ReactFlowProps.nodesDraggable
    /\ i \in 1..Len(nodes)
    /\ nodes[i].position # DragPosition
    /\ nodes' = [nodes EXCEPT ![i] = Spread(@, [position |-> DragPosition])]
    /\ out' = Effects("onNodesChange", <<>>, 0, <<>>, NoOutcome, 0)
    /\ UNCHANGED <<tema, resumo, telaAtual, edges, isLocked, apiKey, inflight,
                   exports, cursor>>

(***************************************************************************)
(* handleExportPDF.  A call keeps the tema of the render whose button      *)
(* started it (the resumo and nodes it keeps too only fill the pages,      *)
(* whose content is not modelled); mapRef.current is the diagram's         *)
(* container while RESULT is mounted and null otherwise.                   *)
(***************************************************************************)
\* pdf.save is called before the topics are laid out
ExportSteps_SaveEarly ==
    <<"toPng", "title", "addImage", "addPage", "resumo", "save", "topicos">>

\* the calls of the try block that can throw, in the order the code makes
\* them: the rasterization, then the layout of the two pages, then the save
ExportSteps ==
    <<"toPng", "title", "addImage", "addPage", "resumo", "topicos", "save">>

\* 0: no step fails; k: the k-th step throws
FailPoints == 0..Len(ExportSteps)

\* `${tema || 'mapa-mental'}.pdf`
FileName(t) == <<IF t = "" THEN "mapa-mental" ELSE t, ".pdf">>

\* the file is named from the topic stored when pdf.save runs
ExportRun_CurrentTema(e, failAt) ==
    LET done == IF failAt = 0 THEN Len(ExportSteps) ELSE failAt - 1
        ran == {ExportSteps[k] : k \in 1..done}
    IN  [saved |-> IF "save" \in ran THEN <<FileName(tema)>> ELSE <<>>,
         alerts |-> IF failAt = 0 THEN <<>> ELSE <<AlertPDF>>]

\* the try/catch of the export e when its failAt-th step throws: the steps
\* before it have run, the catch block alerts
ExportRun(e, failAt) ==
    LET done == IF failAt = 0 THEN Len(ExportSteps) ELSE failAt - 1
        ran == {ExportSteps[k] : k \in 1..done}
    IN  [saved |-> IF "save" \in ran THEN <<FileName(e.tema)>> ELSE <<>>,
         alerts |-> IF failAt = 0 THEN <<>> ELSE <<AlertPDF>>]

\* the Exportar como PDF button, rendered on RESULT (mapRef.current is not
\* null there): blurs the nodes and waits on the 50 ms timer
handleExportPDF ==
    /\ telaAtual = "RESULT"
    /\ Len(exports) < MaxExports
    /\ exports' = Append(exports, [pc |-> "timer", tema |-> tema,
                                   mounted |-> FALSE])
    /\ out' = Effects("handleExportPDF", <<>>, 0, <<>>, NoOutcome, 0)
    /\ UNCHANGED <<tema, resumo, telaAtual, nodes, edges, isLocked, apiKey,
                   inflight, cursor>>

\* the timer fired: the cursor is set and toPng(mapRef.current) is called
ExportTimer(i) ==
    /\ i \in 1..Len(exports)
    /\ exports[i].pc = "timer"
    /\ exports' = [exports EXCEPT ![i].pc = "toPng",
                                  ![i].mounted = (telaAtual = "RESULT")]
    /\ cursor' = "wait"
    /\ out' = Effects("ExportTimer", <<>>, 0, <<>>, NoOutcome, 0)
    /\ UNCHANGED <<tema, resumo, telaAtual, nodes, edges, isLocked, apiKey,
                   inflight>>

\* the catch block of the export returns to HOME, as the catch block of the
\* generation does
ExportSettle_CatchGoesHome(i, failAt) ==
    /\ i \in 1..Len(exports)
    /\ exports[i].pc = "toPng"
    /\ failAt \in FailPoints
    /\ ~exports[i].mounted => failAt = 1
    /\ LET r == ExportRun(exports[i], failAt)
       IN  out' = Effects("ExportSettle", r.alerts, 0, r.saved, NoOutcome,
                          failAt)
    /\ exports' = RemoveAt(exports, i)
    /\ cursor' = "default"
    /\ telaAtual' = IF failAt = 0 THEN telaAtual ELSE "HOME"
    /\ UNCHANGED <<tema, resumo, nodes, edges, isLocked, apiKey, inflight>>

\* toPng settled: the rest of the try block, the catch and the finally;
\* toPng of a null container rejects
ExportSettle(i, failAt) ==
    /\ i \in 1..Len(exports)
    /\ exports[i].pc = "toPng"
    /\ failAt \in FailPoints
    /\ ~exports[i].mounted => failAt = 1
    /\ LET r == ExportRun(exports[i], failAt)
       IN  out' = Effects("ExportSettle", r.alerts, 0, r.saved, NoOutcome,
                          failAt)
    /\ exports' = RemoveAt(exports, i)
    /\ cursor' = "default"
    /\ UNCHANGED <<tema, resumo, telaAtual, nodes, edges, isLocked, apiKey,
                   inflight>>

(***************************************************************************)
(* The specification.                                                      *)
(***************************************************************************)
Next ==
    \/ \E t \in Temas : setTema(t)
    \/ handleGerarMapa
    \/ \E i \in 1..Len(inflight), o \in Outcomes : GerarMapaSettle(i, o)
    \/ handleVoltar
    \/ toggleLock
    \/ \E i \in 1..Len(nodes) : onNodesChange(i)
    \/ handleExportPDF
    \/ \E i \in 1..Len(exports) : ExportTimer(i)
    \/ \E i \in 1..Len(exports), f \in FailPoints : ExportSettle(i, f)

Spec == Init /\ [][Next]_vars

\* await model.generateContent(prompt): a pending call settles, it resolves
\* or rejects, in the end
LiveSpec ==
    /\ Spec
    /\ WF_vars(\E i \in 1..Len(inflight), o \in Outcomes : GerarMapaSettle(i, o))

(***************************************************************************)
(* The screen state machine.                                               *)
(***************************************************************************)
Telas == {"HOME", "LOADING", "RESULT"}

\* the generation call settled with o and the try block ran to its end: the
\* call resolved, its text parsed, and the nodes and the edges were reshaped
Succeeds(o) ==
    /\ o.ok
    /\ JSONparse(cleanJsonString(o.text)).ok
    /\ ~NodesThrow(JSONparse(cleanJsonString(o.text)).value)
    /\ ~EdgesThrow(JSONparse(cleanJsonString(o.text)).value)

\* the document of a reply that parsed
ParsedDoc(o) == JSONparse(cleanJsonString(o.text)).value

\* C1: the screen changes only along HOME->LOADING (generate with a
\* non-empty topic), LOADING->RESULT (the reply parsed and was reshaped),
\* LOADING->HOME (the generation failed) and RESULT->HOME (reset); a
\* generation never settles on a screen other than LOADING, so HOME->RESULT,
\* RESULT->LOADING and RESULT->RESULT never happen.
C1_ScreenEdges ==
    [][/\ telaAtual' \in Telas
       /\ Len(inflight') < Len(inflight) => telaAtual = "LOADING"
       /\ telaAtual' # telaAtual =>
            \/ /\ telaAtual = "HOME" /\ telaAtual' = "LOADING"
               /\ out'.op = "handleGerarMapa"
               /\ tema # ""
            \/ /\ telaAtual = "LOADING" /\ telaAtual' = "RESULT"
               /\ out'.op = "GerarMapaSettle"
               /\ Succeeds(out'.outcome)
            \/ /\ telaAtual = "LOADING" /\ telaAtual' = "HOME"
               /\ out'.op = "GerarMapaSettle"
               /\ ~Succeeds(out'.outcome)
            \/ /\ telaAtual = "RESULT" /\ telaAtual' = "HOME"
               /\ out'.op = "handleVoltar"]_vars

\* a failed generation has brought the screen from LOADING back to HOME
C1_Witness ==
    /\ telaAtual = "HOME"
    /\ out.op = "GerarMapaSettle"
    /\ tema # ""

\* C2: after handleVoltar, from any state in which it can be invoked, the
\* topic is "", the node list and the edge list are empty, the summary is ""
\* and the screen is HOME.
C2_ResetClears ==
    [][handleVoltar =>
         /\ tema' = ""
         /\ nodes' = <<>>
         /\ edges' = <<>>
         /\ resumo' = ""
         /\ telaAtual' = "HOME"]_vars

\* a reset has just cleared a map, whose export is still running
C2_Witness ==
    /\ out.op = "handleVoltar"
    /\ exports # <<>>
    /\ tema = "" /\ nodes = <<>> /\ edges = <<>>

\* C3: whenever the screen is LOADING or HOME, the node list, the edge list
\* and the summary are empty.
C3_EmptyOutsideResult ==
    telaAtual \in {"LOADING", "HOME"} =>
        /\ nodes = <<>>
        /\ edges = <<>>
        /\ resumo = ""

\* a second generation is loading, after a map with nodes and edges was
\* shown and reset
C3_Witness ==
    /\ telaAtual = "LOADING"
    /\ exports # <<>>
    /\ nodes = <<>> /\ edges = <<>> /\ resumo = ""

\* C4: on every LOADING->RESULT transition the stored node list, edge list
\* and summary are the reshaped nodes, the reshaped edges and the summary of
\* the one reply that caused the transition.
C4_ResultFromReply ==
    [][(telaAtual = "LOADING" /\ telaAtual' = "RESULT") =>
         /\ out'.op = "GerarMapaSettle"
         /\ Succeeds(out'.outcome)
         /\ nodes' = processedNodes(ParsedDoc(out'.outcome))
         /\ edges' = processedEdges(ParsedDoc(out'.outcome))
         /\ resumo' = ResumoOf(ParsedDoc(out'.outcome))]_vars

\* a reply with nodes and edges has just been shown
C4_Witness ==
    /\ telaAtual = "RESULT"
    /\ out.op = "GerarMapaSettle"
    /\ nodes # <<>> /\ edges # <<>>

\* C5: a generation whose call, parse or reshaping fails ends with the
\* screen at HOME, exactly one generic alert, and the node list, the edge
\* list and the summary empty.
C5_FailureLeavesNothing ==
    (out.op = "GerarMapaSettle" /\ ~Succeeds(out.outcome)) =>
        /\ telaAtual = "HOME"
        /\ out.alerts = <<AlertErro>>
        /\ nodes = <<>>
        /\ edges = <<>>
        /\ resumo = ""

\* the reply's nodes were reshaped and its missing edges made the try block
\* throw
C5_Witness ==
    /\ out.op = "GerarMapaSettle"
    /\ out.outcome.ok
    /\ JSONparse(cleanJsonString(out.outcome.text)).ok
    /\ ~NodesThrow(ParsedDoc(out.outcome))
    /\ EdgesThrow(ParsedDoc(out.outcome))

(***************************************************************************)
(* The guards of handleGerarMapa.                                          *)
(***************************************************************************)
\* C6: generate with the empty topic issues no network call, shows the
\* alert of the missing topic, and leaves the screen (HOME), the node list,
\* the edge list and the summary unchanged.
C6_EmptyTopic ==
    [][(handleGerarMapa /\ tema = "") =>
         /\ out'.calls = 0
         /\ inflight' = inflight
         /\ out'.alerts = <<AlertTema>>
         /\ telaAtual = "HOME" /\ telaAtual' = "HOME"
         /\ UNCHANGED <<nodes, edges, resumo>>]_vars

\* generate has just been invoked with the empty topic
C6_Witness ==
    /\ out.op = "handleGerarMapa"
    /\ tema = ""
    /\ telaAtual = "HOME"

\* C7: with the credential absent, generate with a non-empty topic issues no
\* network call, shows the alert of the missing credential and ends at HOME;
\* no network call is ever issued or pending without the credential.
C7_MissingCredential ==
    [][/\ (handleGerarMapa /\ tema # "" /\ apiKey = "") =>
            /\ out'.calls = 0
            /\ inflight' = inflight
            /\ out'.alerts = <<AlertChave>>
            /\ telaAtual' = "HOME"
       /\ apiKey' = "" => (out'.calls = 0 /\ inflight' = <<>>)]_vars

\* generate has just been invoked with a topic and without the credential
C7_Witness ==
    /\ out.op = "handleGerarMapa"
    /\ tema # ""
    /\ apiKey = ""
    /\ out.alerts = <<AlertChave>>

(***************************************************************************)
(* The export.                                                             *)
(***************************************************************************)
\* a step of an export: its start, its timer, or its end
ExportStep == exports' # exports

\* C8 as stated: no step of an export changes the screen, the topic, the
\* node list, the edge list or the summary, the screen is RESULT before and
\* after the export, and a failed export shows the alert.
C8_Original ==
    [][ExportStep =>
         /\ UNCHANGED store
         /\ telaAtual = "RESULT" /\ telaAtual' = "RESULT"
         /\ (Len(exports') < Len(exports) /\ out'.failAt # 0) =>
                out'.alerts = <<AlertPDF>>]_vars

\* C8, amended: no step of an export changes the screen, the topic, the
\* node list, the edge list or the summary, the screen is RESULT when the
\* export starts, and a failed export shows the alert.  (The Novo Mapa
\* button stays enabled while an export runs, so the screen the export ends
\* on is the one the user has left it on.)
C8_ExportFrame ==
    [][ExportStep =>
         /\ UNCHANGED store
         /\ Len(exports') > Len(exports) => telaAtual = "RESULT"
         /\ (Len(exports') < Len(exports) /\ out'.failAt # 0) =>
                out'.alerts = <<AlertPDF>>]_vars

\* an export has just failed in the layout of its pages, on RESULT
C8_Witness ==
    /\ out.op = "ExportSettle"
    /\ out.failAt > 1
    /\ telaAtual = "RESULT"
    /\ nodes # <<>>

\* C9: an export saves its file only when the rasterization and every
\* layout step succeeded; when a step fails no file is saved and the user
\* is alerted; an export saves at most one file, at its end.
C9_SaveLast ==
    /\ out.op = "ExportSettle" =>
         /\ out.failAt # 0 => (out.saved = <<>> /\ out.alerts = <<AlertPDF>>)
         /\ out.failAt = 0 => (Len(out.saved) = 1 /\ out.alerts = <<>>)
    /\ out.op # "ExportSettle" => out.saved = <<>>

\* an export has just failed in its last layout step, the topics
C9_Witness ==
    /\ out.op = "ExportSettle"
    /\ out.failAt # 0
    /\ ExportSteps[out.failAt] \in {"topicos", "save"}
    /\ out.saved = <<>>

(***************************************************************************)
(* The reshaped nodes.                                                     *)
(***************************************************************************)
\* C10: the reshaped node list has the length and the order of mapa.nodes;
\* each node keeps its id and position, has type 'mindmap' whatever type the
\* reply gave, keeps the label and the descricao of its data, and has
\* data.id equal to its own id whatever data.id the reply gave.
C10_NodesReshaped ==
    (out.op = "GerarMapaSettle" /\ telaAtual = "RESULT") =>
        LET given == ParsedDoc(out.outcome).mapa.nodes
        IN  /\ Len(nodes) = Len(given)
            /\ \A i \in 1..Len(given) :
                 /\ Get(nodes[i], "id") = Get(given[i], "id")
                 /\ Has(nodes[i], "id") = Has(given[i], "id")
                 /\ nodes[i].position = given[i].position
                 /\ Get(nodes[i], "type") = "mindmap"
                 /\ Has(nodes[i], "data")
                 /\ Has(nodes[i].data, "id")
                 /\ Get(nodes[i].data, "id") = Get(given[i], "id")
                 /\ Has(given[i], "data") =>
                      \A k \in {"label", "descricao"} :
                        /\ Has(nodes[i].data, k) = Has(given[i].data, k)
                        /\ Get(nodes[i].data, k) = Get(given[i].data, k)

\* a reply whose node carried its own type and data.id has just been shown
C10_Witness ==
    /\ out.op = "GerarMapaSettle"
    /\ telaAtual = "RESULT"
    /\ \E i \in 1..Len(nodes) :
         /\ ParsedDoc(out.outcome).mapa.nodes[i] = NodeTyped
         /\ nodes[i].type = "mindmap"
         /\ nodes[i].data.id = "3"

(***************************************************************************)
(* The reshaped edges and the summary.                                     *)
(***************************************************************************)
\* C11: the reshaped edge list has the length and the order of mapa.edges;
\* each edge keeps its id, source and target, and has animated = true and
\* the fixed stroke style, also when the reply gave the edge its own
\* animated or style.
C11_EdgesReshaped ==
    (out.op = "GerarMapaSettle" /\ telaAtual = "RESULT") =>
        LET given == ParsedDoc(out.outcome).mapa.edges
        IN  /\ Len(edges) = Len(given)
            /\ \A i \in 1..Len(given) :
                 /\ \A k \in {"id", "source", "target"} :
                      /\ Has(edges[i], k) = Has(ObjOf(given[i]), k)
                      /\ Get(edges[i], k) = Get(ObjOf(given[i]), k)
                 /\ Has(edges[i], "animated")
                 /\ edges[i].animated = TRUE
                 /\ Has(edges[i], "style")
                 /\ edges[i].style = [stroke |-> "#6b7280", strokeWidth |-> 2]

\* a reply whose edge carried its own animated and style has just been shown
C11_Witness ==
    /\ out.op = "GerarMapaSettle"
    /\ telaAtual = "RESULT"
    /\ \E i \in 1..Len(edges) :
         /\ ParsedDoc(out.outcome).mapa.edges[i] = EdgeStyled
         /\ edges[i].animated = TRUE

\* C12: after a successful generation the stored summary is the fixed
\* fallback when the reply's resumo is "" or absent, and the reply's resumo
\* when that is a non-empty string; on RESULT the summary is never empty or
\* undefined.
C12_SummaryFallback ==
    /\ (out.op = "GerarMapaSettle" /\ telaAtual = "RESULT") =>
         LET d == ParsedDoc(out.outcome)
         IN  /\ (~Has(d, "resumo") \/ Get(d, "resumo") = "") =>
                    resumo = "Nao foi possivel gerar um resumo."
             /\ (Has(d, "resumo") /\ Get(d, "resumo") # "") =>
                    resumo = d.resumo
    /\ telaAtual = "RESULT" => resumo \notin {"", Undefined}

\* a reply with the empty resumo, or without one, has just been shown
C12_Witness ==
    /\ out.op = "GerarMapaSettle"
    /\ telaAtual = "RESULT"
    /\ out.outcome.text \in {<<"JresumoE">>, <<"JnoResumo">>}
    /\ resumo = ResumoFallback

(***************************************************************************)
(* cleanJsonString, on the reply of the generation that has just settled.  *)
(***************************************************************************)
\* the reply text the last step was given
GivenText == out.outcome.text

\* the last step was given a reply text
GaveText == out.op = "GerarMapaSettle" /\ out.outcome.ok

\* C13 as stated: for a JSON text J wrapped as the opening fence, a newline,
\* J, a newline and the closing fence, cleanJsonString yields exactly J.
C13_Original ==
    GaveText =>
        \A tok \in Tokens :
            GivenText = OpenFence \o <<NL, tok, NL>> \o CloseFence =>
                cleanJsonString(GivenText) = <<tok>>

\* C13, amended: for a JSON text J wrapped as the opening fence, a newline,
\* J, a newline and the closing fence, cleanJsonString yields J followed by
\* the newline that stood before the closing fence: no fence character is
\* left, and JSON.parse reads the result as it reads J.
C13_FenceStripped ==
    GaveText =>
        \A tok \in Tokens :
            GivenText = OpenFence \o <<NL, tok, NL>> \o CloseFence =>
                /\ cleanJsonString(GivenText) = <<tok, NL>>
                /\ \A i \in 1..Len(cleanJsonString(GivenText)) :
                     cleanJsonString(GivenText)[i] # BT
                /\ JSONparse(cleanJsonString(GivenText)) = JSONparse(<<tok>>)

\* the fenced {"a":1} has just been cleaned and parsed
C13_Witness ==
    /\ GaveText
    /\ GivenText = OpenFence \o <<NL, "Ja1", NL>> \o CloseFence
    /\ JSONparse(cleanJsonString(GivenText)).ok

\* C14 as stated: for every text s, cleanJsonString(cleanJsonString(s)) is
\* cleanJsonString(s).
C14_Original ==
    GaveText =>
        cleanJsonString(cleanJsonString(GivenText)) = cleanJsonString(GivenText)

\* C14, amended: cleanJsonString(cleanJsonString(s)) is cleanJsonString(s)
\* for every text s whose cleaned form does not again begin with the opening
\* fence or end with the closing fence (every bare or once-fenced text), and
\* a text that neither begins with the opening fence nor ends with the
\* closing fence is returned unchanged.
C14_IdempotentOnceFenced ==
    GaveText =>
        /\ (/\ ~StartsWith(cleanJsonString(GivenText), OpenFence)
            /\ ~EndsWith(cleanJsonString(GivenText), CloseFence)) =>
             cleanJsonString(cleanJsonString(GivenText))
                 = cleanJsonString(GivenText)
        /\ (~StartsWith(GivenText, OpenFence) /\ ~EndsWith(GivenText, CloseFence))
             => cleanJsonString(GivenText) = GivenText

\* a once-fenced reply was cleaned, and cleaning the result again changes
\* nothing
C14_Witness ==
    /\ GaveText
    /\ GivenText = OpenFence \o <<"Jspec">> \o CloseFence
    /\ cleanJsonString(GivenText) = <<"Jspec">>
    /\ cleanJsonString(cleanJsonString(GivenText)) = <<"Jspec">>

(***************************************************************************)
(* The prompt of the generation calls.                                     *)
(***************************************************************************)
\* the places of the piece x in the text p
Places(p, x) == {i \in 1..Len(p) : p[i] = x}

\* C15: the prompt of every generation call contains the call's topic
\* verbatim at least twice, between quotes, and the quoted key names mapa,
\* nodes, edges and resumo.
C15_PromptContent ==
    \A c \in 1..Len(inflight) :
        LET p == inflight[c].prompt
            t == inflight[c].tema
        IN  /\ Cardinality({i \in Places(p, t) :
                              /\ 1 < i /\ i < Len(p)
                              /\ p[i - 1] = "\"" /\ p[i + 1] = "\""}) >= 2
            /\ \A key \in {"mapa", "nodes", "edges", "resumo"} :
                 \E i \in Places(p, key) :
                     /\ 1 < i /\ i < Len(p)
                     /\ p[i - 1] = "\"" /\ p[i + 1] = "\""

\* a generation call is pending, issued with the prompt of the topic b
C15_Witness ==
    /\ inflight # <<>>
    /\ inflight[1].tema = "b"
    /\ Places(inflight[1].prompt, "b") # {}

(***************************************************************************)
(* The interaction lock.                                                   *)
(***************************************************************************)
\* the gestures the lock governs
LockedGestures ==
    {"nodesDraggable", "nodesFocusable", "edgesFocusable", "panOnDrag",
     "zoomOnScroll", "zoomOnPinch", "zoomOnDoubleClick"}

\* C16: in every state the seven gestures are enabled exactly when the lock
\* is off and the page scrolls over the diagram exactly when the lock is on;
\* a node is moved only while the lock is off; each press of the lock button
\* flips the lock and changes nothing of the nodes, the edges, the summary,
\* the topic and the screen.
C16_LockFlags ==
    /\ [](/\ \A g \in LockedGestures : ReactFlowProps[g] = ~isLocked
          /\ PageScrolls = isLocked)
    /\ [][/\ toggleLock => (isLocked' = ~isLocked /\ UNCHANGED store)
          /\ isLocked' # isLocked => out'.op = "toggleLock"
          /\ (telaAtual = "RESULT" /\ telaAtual' = "RESULT" /\ nodes' # nodes)
                => ~isLocked]_vars

\* the lock has just been switched off again, with a map on the screen
C16_Witness ==
    /\ out.op = "toggleLock"
    /\ ~isLocked
    /\ ReactFlowProps.nodesDraggable
    /\ ~PageScrolls
    /\ nodes # <<>>

(***************************************************************************)
(* The actions in flight.                                                  *)
(***************************************************************************)
\* C17 as stated: at most one generation call or export is in flight.
C17_Original == Len(inflight) + Len(exports) <= 1

\* C17, amended: at most one generation call is in flight, and one is in
\* flight exactly while the screen is LOADING, so that a second generation
\* cannot be started while one is pending.  (Exports are not serialized:
\* the export button stays enabled while an export runs, and an export can
\* still run while a generation is pending.)
C17_OneGeneration ==
    /\ Len(inflight) <= 1
    /\ inflight # <<>> <=> telaAtual = "LOADING"

\* a generation is pending while two exports are still running
C17_Witness ==
    /\ Len(inflight) = 1
    /\ Len(exports) >= 2

\* C18: a generate action issues at most one network call, and only a
\* generate action issues one; after a failed generation no call is issued
\* or pending; an export is started by the export button only, and a failed
\* export is gone, not started again.
C18_NoRetry ==
    [][/\ out'.calls <= 1
       /\ (out'.calls > 0 \/ Len(inflight') > Len(inflight)) =>
            /\ out'.op = "handleGerarMapa"
            /\ out'.calls = 1
            /\ Len(inflight') = Len(inflight) + 1
       /\ (Len(inflight') < Len(inflight) /\ ~Succeeds(out'.outcome)) =>
            /\ out'.calls = 0
            /\ inflight' = <<>>
            /\ telaAtual' = "HOME"
       /\ Len(exports') > Len(exports) => out'.op = "handleExportPDF"
       /\ (out'.op = "ExportSettle" /\ out'.failAt # 0 /\ exports' # exports)
            => Len(exports') = Len(exports) - 1]_vars

\* the generation call was rejected: nothing is pending any more
C18_Witness ==
    /\ out.op = "GerarMapaSettle"
    /\ ~out.outcome.ok
    /\ inflight = <<>>
    /\ out.calls = 0

(***************************************************************************)
(* The pending generation.                                                 *)
(***************************************************************************)
\* C19: while the screen is LOADING a generation call is pending, and only
\* its settling changes the screen, the topic, the nodes, the edges or the
\* summary: no other step that is enabled on LOADING (there is no cancel, no
\* timeout, no reset) changes them, so the screen stays LOADING as long as
\* the call does not settle.
C19_LoadingOnlySettles ==
    /\ [](telaAtual = "LOADING" => inflight # <<>>)
    /\ [][(telaAtual = "LOADING" /\ store' # store) =>
            /\ out'.op = "GerarMapaSettle"
            /\ Len(inflight') < Len(inflight)]_vars

\* on LOADING a step was taken, the timer of an export, that left the
\* screen and the data alone
C19_Witness ==
    /\ telaAtual = "LOADING"
    /\ out.op = "ExportTimer"
    /\ inflight # <<>>

(***************************************************************************)
(* Replies with missing keys.                                              *)
(***************************************************************************)
LacksNodes(d) == ~Has(d, "mapa") \/ ~Has(d.mapa, "nodes")
LacksEdges(d) == ~Has(d, "mapa") \/ ~Has(d.mapa, "edges")
LacksResumo(d) == ~Has(d, "resumo")

\* the last step was given a reply that parsed
GaveDoc == GaveText /\ JSONparse(cleanJsonString(GivenText)).ok

\* C20 as stated: a parsed reply that lacks mapa.nodes, mapa.edges or resumo
\* makes the generation fail: HOME, the generic alert, never RESULT.
C20_Original ==
    (/\ GaveDoc
     /\ \/ LacksNodes(ParsedDoc(out.outcome))
        \/ LacksEdges(ParsedDoc(out.outcome))
        \/ LacksResumo(ParsedDoc(out.outcome))) =>
        /\ telaAtual = "HOME"
        /\ out.alerts = <<AlertErro>>

\* C20, amended: a parsed reply that lacks mapa.nodes or mapa.edges makes
\* the generation fail: HOME, the generic alert, never RESULT.  A reply that
\* lacks only resumo does not fail: the screen reaches RESULT with the
\* fallback summary.
C20_MissingKeys ==
    GaveDoc =>
        /\ (\/ LacksNodes(ParsedDoc(out.outcome))
            \/ LacksEdges(ParsedDoc(out.outcome))) =>
             /\ telaAtual = "HOME"
             /\ out.alerts = <<AlertErro>>
        /\ (/\ LacksResumo(ParsedDoc(out.outcome))
            /\ Succeeds(out.outcome)) =>
             /\ telaAtual = "RESULT"
             /\ out.alerts = <<>>
             /\ resumo = ResumoFallback

\* a reply with nodes and without edges has just failed
C20_Witness ==
    /\ GaveDoc
    /\ ~LacksNodes(ParsedDoc(out.outcome))
    /\ LacksEdges(ParsedDoc(out.outcome))
    /\ telaAtual = "HOME"

(***************************************************************************)
(* Edges that reference no node.                                           *)
(***************************************************************************)
\* the ids of a list of nodes
IdsOf(ns) == {Get(ObjOf(ns[j]), "id") : j \in 1..Len(ns)}

\* the edge e has a source and a target, and one of them is none of ids
IsDangling(e, ids) ==
    /\ Has(ObjOf(e), "source")
    /\ Has(ObjOf(e), "target")
    /\ \/ Get(ObjOf(e), "source") \notin ids
       \/ Get(ObjOf(e), "target") \notin ids

\* the document has its two lists, every node is an object, and some edge
\* references no node of the document
HasDanglingEdge(d) ==
    /\ ~LacksNodes(d)
    /\ ~LacksEdges(d)
    /\ \A j \in 1..Len(d.mapa.nodes) : d.mapa.nodes[j] # Null
    /\ \E i \in 1..Len(d.mapa.edges) :
         IsDangling(d.mapa.edges[i], IdsOf(d.mapa.nodes))

\* C21: a parsed reply with an edge whose source or target is no node's id
\* does not fail: the screen reaches RESULT without an alert, the stored
\* edge list has the reply's length, and every dangling edge is stored with
\* all its own keys and values, plus animated and the fixed style.
C21_DanglingPassesThrough ==
    (GaveDoc /\ HasDanglingEdge(ParsedDoc(out.outcome))) =>
        LET d == ParsedDoc(out.outcome)
        IN  /\ telaAtual = "RESULT"
            /\ out.alerts = <<>>
            /\ Len(edges) = Len(d.mapa.edges)
            /\ \A i \in 1..Len(d.mapa.edges) :
                 IsDangling(d.mapa.edges[i], IdsOf(d.mapa.nodes)) =>
                    /\ DOMAIN edges[i] =
                         DOMAIN d.mapa.edges[i] \cup {"animated", "style"}
                    /\ \A k \in DOMAIN d.mapa.edges[i] \ {"animated", "style"} :
                         edges[i][k] = d.mapa.edges[i][k]
                    /\ edges[i].animated = TRUE
                    /\ edges[i].style = [stroke |-> "#6b7280", strokeWidth |-> 2]

\* a RESULT state in which a stored edge has a source, and another a
\* target, that is the id of no stored node: "every stored edge references
\* a stored node" is no invariant of RESULT
C21_Witness ==
    /\ telaAtual = "RESULT"
    /\ \E i \in 1..Len(edges) : edges[i].source \notin IdsOf(nodes)
    /\ \E i \in 1..Len(edges) : edges[i].target \notin IdsOf(nodes)

(***************************************************************************)
(* Requests and the responses that are shown.                              *)
(***************************************************************************)
\* the node lists a and b differ in the positions of their nodes at most
SameButPosition(a, b) ==
    /\ Len(a) = Len(b)
    /\ \A i \in 1..Len(a) :
         /\ DOMAIN a[i] = DOMAIN b[i]
         /\ \A k \in DOMAIN a[i] \ {"position"} : a[i][k] = b[i][k]

\* the nodes, the edges and the summary are those of the response o, the
\* nodes possibly dragged since
ShowsResponse(o) ==
    /\ Succeeds(o)
    /\ SameButPosition(nodes, processedNodes(ParsedDoc(o)))
    /\ edges = processedEdges(ParsedDoc(o))
    /\ resumo = ResumoOf(ParsedDoc(o))

\* C22: no stale response.  A request is pending only on LOADING, it is the
\* only one and it was issued for the stored topic; a request is issued
\* only when none is pending; a response settles that one request, with the
\* topic unchanged since; and on RESULT, where the data are those of a
\* response, no response arrives any more: the topic, the edges and the
\* summary stay, and the nodes change by dragging only, until the reset.
C22_NoStaleResponse ==
    /\ [](inflight # <<>> =>
            /\ Len(inflight) = 1
            /\ telaAtual = "LOADING"
            /\ inflight[1].tema = tema)
    /\ [](telaAtual = "RESULT" => \E o \in Outcomes : ShowsResponse(o))
    /\ [][/\ Len(inflight') > Len(inflight) =>
               /\ inflight = <<>>
               /\ inflight' = <<[tema |-> tema', prompt |-> getPrompt(tema')]>>
          /\ Len(inflight') < Len(inflight) =>
               /\ telaAtual = "LOADING"
               /\ inflight[1].tema = tema
               /\ tema' = tema
               /\ inflight' = <<>>
               /\ telaAtual' = "RESULT" =>
                    /\ Succeeds(out'.outcome)
                    /\ nodes' = processedNodes(ParsedDoc(out'.outcome))
                    /\ edges' = processedEdges(ParsedDoc(out'.outcome))
                    /\ resumo' = ResumoOf(ParsedDoc(out'.outcome))
          /\ (nodes' # nodes \/ edges' # edges \/ resumo' # resumo
                \/ telaAtual' # telaAtual) =>
               \/ Len(inflight') # Len(inflight)
               \/ out'.op = "handleVoltar"
               \/ out'.op = "onNodesChange"
          /\ (telaAtual = "RESULT" /\ telaAtual' = "RESULT") =>
               /\ tema' = tema
               /\ edges' = edges
               /\ resumo' = resumo
               /\ SameButPosition(nodes', nodes)]_vars

\* the response to a second request, for the topic "b", is shown while an
\* export of the map of the first request, for "a", is still running
C22_Witness ==
    /\ telaAtual = "RESULT"
    /\ out.op = "GerarMapaSettle"
    /\ tema = "b"
    /\ ShowsResponse(out.outcome)
    /\ \E i \in 1..Len(exports) : exports[i].tema = "a"

(***************************************************************************)
(* The topic on LOADING and RESULT, and the name of the exported file.     *)
(***************************************************************************)
\* C23: on LOADING and on RESULT the topic is non-empty; on LOADING it is
\* the topic of the pending request; the topic changes only by typing on
\* HOME and by the reset, which empties it and leaves RESULT, so on RESULT
\* it is still the topic of the request that was shown.  An export starts
\* on RESULT only and keeps the topic of that moment, so a saved file is
\* named from a non-empty topic and never "mapa-mental".
C23_TopicKept ==
    /\ [](telaAtual \in {"LOADING", "RESULT"} => tema # "")
    /\ [](telaAtual = "LOADING" =>
            /\ inflight # <<>>
            /\ \A i \in 1..Len(inflight) : inflight[i].tema = tema)
    /\ [](\A i \in 1..Len(exports) : exports[i].tema # "")
    /\ [](\A i \in 1..Len(out.saved) :
            /\ out.saved[i] # <<"mapa-mental", ".pdf">>
            /\ out.saved[i][1] # ""
            /\ out.saved[i][2] = ".pdf")
    /\ [][/\ tema' # tema =>
               \/ telaAtual = "HOME" /\ telaAtual' = "HOME"
                    /\ out'.op = "setTema"
               \/ telaAtual = "RESULT" /\ telaAtual' = "HOME"
                    /\ out'.op = "handleVoltar" /\ tema' = ""
          /\ Len(exports') > Len(exports) =>
               /\ telaAtual = "RESULT"
               /\ exports'[Len(exports')].tema = tema
          /\ out'.saved # <<>> =>
               \E i \in 1..Len(exports) :
                  out'.saved = <<<<exports[i].tema, ".pdf">>>>]_vars

\* an export started on the RESULT of the topic "a" has just saved its
\* file, named "a", on the RESULT of a later generation for the topic "b"
C23_Witness ==
    /\ out.op = "ExportSettle"
    /\ out.saved = <<FileName("a")>>
    /\ tema = "b"
    /\ telaAtual = "RESULT"

(***************************************************************************)
(* Leaving LOADING.                                                        *)
(***************************************************************************)
\* C24: given that a pending call settles, every LOADING state is followed
\* by a HOME or a RESULT state; and the step in which the call settles
\* leaves LOADING, whatever the outcome: a rejection, a text that is no
\* JSON, a document with missing keys or a valid one.
C24_LeavesLoading ==
    /\ (telaAtual = "LOADING") ~> (telaAtual \in {"HOME", "RESULT"})
    /\ [][Len(inflight') < Len(inflight) =>
            /\ telaAtual = "LOADING"
            /\ telaAtual' \in {"HOME", "RESULT"}
            /\ telaAtual' = "RESULT" <=> Succeeds(out'.outcome)]_vars

\* the call has just settled with a text that is no JSON value, and the
\* screen has left LOADING
C24_Witness ==
    /\ out.op = "GerarMapaSettle"
    /\ out.outcome.ok
    /\ ~JSONparse(cleanJsonString(out.outcome.text)).ok
    /\ telaAtual # "LOADING"

====
